---- MODULE Spec2Model ----
(***************************************************************************)
(* libvector: Vector2, Vector3, Vector4 and DynamicVector over f64.        *)
(*                                                                         *)
(* f64 is modelled as an IEEE-754 binary format with the same rules as     *)
(* binary64 (round to nearest, ties to even; gradual underflow; overflow   *)
(* to infinity; signed zeros; NaN) and a reduced precision and exponent    *)
(* range.  A finite value is a sign and a magnitude counted in units of    *)
(* the smallest subnormal; 1.0 is Pow2(OneExp) units.                      *)
(***************************************************************************)
EXTENDS Integers, Sequences, FiniteSets, TLC

\* ---------------------------------------------------------------- bounds
SigBits == 3        \* bits of significand (binary64: 53)
MaxExp  == 4        \* binades above the subnormal one (binary64: 2045)
OneExp  == 2        \* 1.0 = 2^OneExp units (binary64: 2^1074)
MaxLen  == 2        \* largest DynamicVector length constructed

\* ---------------------------------------------------------------- f64
RECURSIVE Pow2(_)
Pow2(e) == IF e = 0 THEN 1 ELSE 2 * Pow2(e - 1)

One_u     == Pow2(OneExp)
MaxFinite == (Pow2(SigBits) - 1) * Pow2(MaxExp)

\* a value: its class, its sign (1 or -1) and its magnitude in units
F(s, n) == <<"num", s, n>>
Inf(s)  == <<"inf", s, 0>>
NaN     == <<"nan", 1, 0>>
Zero    == F(1, 0)
NegZero == F(-1, 0)

is_nan(x)  == x[1] = "nan"
IsZero(x)  == x[1] = "num" /\ x[3] = 0

\* exponent of the binade holding the magnitude q (in units)
RECURSIVE ExpOf(_)
ExpOf(q) == IF q < Pow2(SigBits) THEN 0 ELSE 1 + ExpOf(q \div 2)

\* the exact value num/den units, rounded to nearest, ties to even
Rnd(s, num, den) ==
  LET ulp == Pow2(ExpOf(num \div den))
      m   == num \div (den * ulp)
      rem == num - m * den * ulp
      up  == \/ 2 * rem > den * ulp
             \/ 2 * rem = den * ulp /\ m % 2 = 1
      n   == (IF up THEN m + 1 ELSE m) * ulp
  IN  IF n > MaxFinite THEN Inf(s) ELSE F(s, n)

FNeg(x) == IF is_nan(x) THEN NaN ELSE <<x[1], -x[2], x[3]>>

FMul(x, y) ==
  IF is_nan(x) \/ is_nan(y) THEN NaN
  ELSE IF x[1] = "inf" \/ y[1] = "inf"
       THEN IF IsZero(x) \/ IsZero(y) THEN NaN ELSE Inf(x[2] * y[2])
       ELSE Rnd(x[2] * y[2], x[3] * y[3], One_u)

FAdd(x, y) ==
  IF is_nan(x) \/ is_nan(y) THEN NaN
  ELSE IF x[1] = "inf"
       THEN IF y[1] = "inf" /\ y[2] # x[2] THEN NaN ELSE x
       ELSE IF y[1] = "inf" THEN y
       ELSE LET sum == x[2] * x[3] + y[2] * y[3]
            IN  IF sum = 0
                THEN (IF x[2] = y[2] THEN F(x[2], 0) ELSE Zero)
                ELSE IF sum > 0 THEN Rnd(1, sum, 1) ELSE Rnd(-1, -sum, 1)

FSub(x, y) == FAdd(x, FNeg(y))

FDiv(x, y) ==
  IF is_nan(x) \/ is_nan(y) THEN NaN
  ELSE IF x[1] = "inf"
       THEN IF y[1] = "inf" THEN NaN ELSE Inf(x[2] * y[2])
       ELSE IF y[1] = "inf" THEN F(x[2] * y[2], 0)
       ELSE IF y[3] = 0
            THEN IF x[3] = 0 THEN NaN ELSE Inf(x[2] * y[2])
            ELSE Rnd(x[2] * y[2], x[3] * One_u, y[3])

\* the representable magnitudes, in units
Mags == { m * Pow2(e) : m \in 0 .. Pow2(SigBits) - 1, e \in 0 .. MaxExp }

\* the next magnitude above r
next_up == [r \in Mags |-> r + Pow2(ExpOf(r))]

\* sqrt is correctly rounded: lo and hi are the neighbouring magnitudes around it
FSqrt(x) ==
  IF is_nan(x) THEN NaN
  ELSE IF IsZero(x) THEN x
  ELSE IF x[2] = -1 THEN NaN
  ELSE IF x[1] = "inf" THEN x
  ELSE LET t  == x[3] * One_u
           lo == CHOOSE r \in Mags : r * r <= t /\ t < next_up[r] * next_up[r]
           hi == next_up[lo]
       IN  IF (lo + hi) * (lo + hi) < 4 * t THEN F(1, hi) ELSE F(1, lo)

\* the comparisons of f64: PartialEq::eq, PartialOrd::lt, partial_cmp
Key(x) == IF x[1] = "inf" THEN x[2] * (MaxFinite + 1) ELSE x[2] * x[3]

FEq(x, y) == ~is_nan(x) /\ ~is_nan(y) /\ Key(x) = Key(y)
FLt(x, y) == ~is_nan(x) /\ ~is_nan(y) /\ Key(x) < Key(y)
partial_cmp(x, y) ==
  IF is_nan(x) \/ is_nan(y) THEN "None"
  ELSE IF Key(x) < Key(y) THEN "Less"
  ELSE IF Key(x) > Key(y) THEN "Greater" ELSE "Equal"

\* ---------------------------------------------------------------- state
VARIABLES
  vecs,    \* the DynamicVector bound to each name: its data, a Vec<f64>
  len0,    \* the length each of them was constructed with
  call,    \* the last call on a DynamicVector: operation, arguments, outcome
  sum0,    \* the neutral element <f64 as Sum> starts from (0.0 or -0.0,
           \* depending on the toolchain the crate is built with)
  res,     \* the last call of a function of Vector2, Vector3, Vector4
  buf,     \* the heap buffer the Vec of each DynamicVector owns
  cloned   \* one of the two DynamicVectors was made by clone() of the other,
           \* and neither has been rebound since
vars == <<vecs, len0, call, sum0, res, buf, cloned>>

Names == {"v", "w"}
Bufs  == {"b1", "b2"}
NoVal == <<"none", 1, 0>>

\* ---------------------------------------------------------------- inputs
One     == F(1, One_u)
Tiny    == F(1, 1)
Max     == F(1, MaxFinite)
Inputs  == { Zero, NegZero, Tiny, One, F(1, 5 * Pow2(OneExp - 2)),
             F(-1, 3 * Pow2(OneExp - 1)), F(1, Pow2(OneExp + 1)), Max,
             Inf(-1), NaN }
Few     == { Zero, One, F(-1, 3 * Pow2(OneExp - 1)), Max, NaN }
Three   == { One, F(-1, Pow2(OneExp + 1)), NaN }
SetVals == { One, NaN }

\* ---------------------------------------------------------------- DynamicVector
RECURSIVE push_zeros(_, _)
push_zeros(data, left) ==
  IF left = 0 THEN data ELSE push_zeros(Append(data, Zero), left - 1)

new_inclusive(length) == push_zeros(<<>>, length + 1)

DynamicVector_new(length) == push_zeros(<<>>, length)

\* a buffer from the allocator: one that no other live Vec owns
Fresh(t) == CHOOSE b \in Bufs : \A m \in Names \ {t} : buf[m] # b

\* #[derive(Clone)]: Vec::clone copies the elements into a buffer of its own
DynamicVector_clone(self) == [i \in DOMAIN self |-> self[i]]

clone_shares_buffer(s, t) == buf[s]

clone_buffer(s, t) == Fresh(t)

get_wrapping(self, index) ==
  IF Len(self) = 0
  THEN [panicked |-> TRUE,  ret |-> NoVal]
  ELSE [panicked |-> FALSE, ret |-> self[(index % Len(self)) + 1]]

\* self.data[index]: the index of a Vec is checked, and panics out of range
DynamicVector_get(self, index) ==
  IF index >= Len(self)
  THEN [panicked |-> TRUE,  ret |-> NoVal]
  ELSE [panicked |-> FALSE, ret |-> self[index + 1]]

set_growing(self, index, value) ==
  IF index >= Len(self)
  THEN [panicked |-> FALSE, data |-> Append(self, value)]
  ELSE [panicked |-> FALSE, data |-> [self EXCEPT ![index + 1] = value]]

set_filling(self, index, value) ==
  IF index >= Len(self)
  THEN [panicked |-> TRUE,  data |-> self]
  ELSE [panicked |-> FALSE, data |-> [i \in DOMAIN self |-> value]]

DynamicVector_set(self, index, value) ==
  IF index >= Len(self)
  THEN [panicked |-> TRUE,  data |-> self]
  ELSE [panicked |-> FALSE, data |-> [self EXCEPT ![index + 1] = value]]

zip_cycling(s, t) ==
  IF Len(s) = 0 \/ Len(t) = 0 THEN <<>>
  ELSE [i \in 1 .. (IF Len(s) < Len(t) THEN Len(t) ELSE Len(s)) |->
          <<s[((i - 1) % Len(s)) + 1], t[((i - 1) % Len(t)) + 1]>>]

zip(s, t) ==
  [i \in 1 .. (IF Len(s) < Len(t) THEN Len(s) ELSE Len(t)) |-> <<s[i], t[i]>>]

RECURSIVE fold_add(_, _)
fold_add(acc, s) ==
  IF Len(s) = 0 THEN acc ELSE fold_add(FAdd(acc, Head(s)), Tail(s))

sum(s) == fold_add(sum0, s)

DynamicVector_dot(self, other) ==
  LET z == zip(self, other)
  IN  sum([i \in DOMAIN z |-> FMul(z[i][1], z[i][2])])

DynamicVector_magnitude(self) ==
  FSqrt(sum([i \in DOMAIN self |-> FMul(self[i], self[i])]))

normalize_guarded(self) ==
  LET magnitude == DynamicVector_magnitude(self)
  IN  IF FEq(magnitude, Zero) THEN self
      ELSE [i \in DOMAIN self |-> FDiv(self[i], magnitude)]

DynamicVector_normalize(self) ==
  LET magnitude == DynamicVector_magnitude(self)
  IN  [i \in DOMAIN self |-> FDiv(self[i], magnitude)]

\* ---------------------------------------------------------------- Vector2
Vector2_new(x, y) == [x |-> x, y |-> y]

Vector2_cross(self, other) ==
  FSub(FMul(self.x, other.y), FMul(self.y, other.x))

dot_x_twice(self, other) ==
  FAdd(FMul(self.x, other.x), FMul(self.y, other.x))

Vector2_dot(self, other) ==
  FAdd(FMul(self.x, other.x), FMul(self.y, other.y))

magnitude_x_only(self) == FSqrt(FMul(self.x, self.x))

Vector2_magnitude(self) ==
  FSqrt(FAdd(FMul(self.x, self.x), FMul(self.y, self.y)))

Vector2_normalize(self) ==
  LET mag == Vector2_magnitude(self)
  IN  [x |-> FDiv(self.x, mag), y |-> FDiv(self.y, mag)]

Vector2_add(self, other) == [x |-> FAdd(self.x, other.x), y |-> FAdd(self.y, other.y)]

sub_y_plus(self, other) == [x |-> FSub(self.x, other.x), y |-> FAdd(self.y, other.y)]

Vector2_sub(self, other) == [x |-> FSub(self.x, other.x), y |-> FSub(self.y, other.y)]
Vector2_mul(self, scalar) == [x |-> FMul(self.x, scalar), y |-> FMul(self.y, scalar)]
Vector2_div(self, scalar) == [x |-> FDiv(self.x, scalar), y |-> FDiv(self.y, scalar)]

Vector2_from_tuple(v)  == [x |-> v[1], y |-> v[2]]
tuple_from_Vector2(v)  == <<v.x, v.y>>
Vector2_from_array(v)  == [x |-> v[1], y |-> v[2]]
array_from_Vector2(v)  == <<v.x, v.y>>

\* #[derive(PartialEq, PartialOrd)]: field by field, in declared order
Vector2_eq(self, other) == FEq(self.x, other.x) /\ FEq(self.y, other.y)

Vector2_partial_cmp(self, other) ==
  LET c == partial_cmp(self.x, other.x)
  IN  IF c = "Equal" THEN partial_cmp(self.y, other.y) ELSE c

Vector2_lt(self, other) == Vector2_partial_cmp(self, other) = "Less"

\* ---------------------------------------------------------------- Vector3
Vector3_new(x, y, z) == [x |-> x, y |-> y, z |-> z]

cross_z_plus(self, other) ==
  [x |-> FSub(FMul(self.y, other.z), FMul(self.z, other.y)),
   y |-> FSub(FMul(self.z, other.x), FMul(self.x, other.z)),
   z |-> FAdd(FMul(self.x, other.y), FMul(self.y, other.x))]

Vector3_cross(self, other) ==
  [x |-> FSub(FMul(self.y, other.z), FMul(self.z, other.y)),
   y |-> FSub(FMul(self.z, other.x), FMul(self.x, other.z)),
   z |-> FSub(FMul(self.x, other.y), FMul(self.y, other.x))]

Vector3_dot(self, other) ==
  FAdd(FAdd(FMul(self.x, other.x), FMul(self.y, other.y)),
       FMul(self.z, other.z))

Vector3_from_array(arr)   == Vector3_new(arr[1], arr[2], arr[3])
Vector3_into_array(self)  == <<self.x, self.y, self.z>>
Vector3_from_tuple(tuple) == Vector3_new(tuple[1], tuple[2], tuple[3])
Vector3_into_tuple(self)  == <<self.x, self.y, self.z>>

Vector3_magnitude(self) ==
  FSqrt(FAdd(FAdd(FMul(self.x, self.x), FMul(self.y, self.y)),
             FMul(self.z, self.z)))

Vector3_normalize(self) ==
  LET mag == Vector3_magnitude(self)
  IN  [x |-> FDiv(self.x, mag), y |-> FDiv(self.y, mag), z |-> FDiv(self.z, mag)]

Vector3_add(self, other) ==
  Vector3_new(FAdd(self.x, other.x), FAdd(self.y, other.y), FAdd(self.z, other.z))

Vector3_sub(self, other) ==
  Vector3_new(FSub(self.x, other.x), FSub(self.y, other.y), FSub(self.z, other.z))

Vector3_div(self, scalar) ==
  Vector3_new(FDiv(self.x, scalar), FDiv(self.y, scalar), FDiv(self.z, scalar))

mul_z_unscaled(self, scalar) ==
  Vector3_new(FMul(self.x, scalar), FMul(self.y, scalar), self.z)

Vector3_mul(self, scalar) ==
  Vector3_new(FMul(self.x, scalar), FMul(self.y, scalar), FMul(self.z, scalar))

Vector3_eq(self, other) ==
  FEq(self.x, other.x) /\ FEq(self.y, other.y) /\ FEq(self.z, other.z)

partial_cmp_skips_y(self, other) ==
  LET cx == partial_cmp(self.x, other.x)
  IN  IF cx # "Equal" THEN cx ELSE partial_cmp(self.z, other.z)

Vector3_partial_cmp(self, other) ==
  LET cx == partial_cmp(self.x, other.x)
      cy == partial_cmp(self.y, other.y)
  IN  IF cx # "Equal" THEN cx
      ELSE IF cy # "Equal" THEN cy
      ELSE partial_cmp(self.z, other.z)

Vector3_lt(self, other) == Vector3_partial_cmp(self, other) = "Less"

\* ---------------------------------------------------------------- Vector4
Vector4_new(a, b, c, d) == [a |-> a, b |-> b, c |-> c, d |-> d]

Vector4_dot(self, other) ==
  FAdd(FAdd(FAdd(FMul(self.a, other.a), FMul(self.b, other.b)),
            FMul(self.c, other.c)),
       FMul(self.d, other.d))

Vector4_magnitude(self) ==
  FSqrt(FAdd(FAdd(FAdd(FMul(self.a, self.a), FMul(self.b, self.b)),
                  FMul(self.c, self.c)),
             FMul(self.d, self.d)))

Vector4_normalize(self) ==
  LET mag == Vector4_magnitude(self)
  IN  [a |-> FDiv(self.a, mag), b |-> FDiv(self.b, mag),
       c |-> FDiv(self.c, mag), d |-> FDiv(self.d, mag)]

Vector4_add(self, other) ==
  [a |-> FAdd(self.a, other.a), b |-> FAdd(self.b, other.b),
   c |-> FAdd(self.c, other.c), d |-> FAdd(self.d, other.d)]

Vector4_sub(self, other) ==
  [a |-> FSub(self.a, other.a), b |-> FSub(self.b, other.b),
   c |-> FSub(self.c, other.c), d |-> FSub(self.d, other.d)]

Vector4_mul(self, scalar) ==
  [a |-> FMul(self.a, scalar), b |-> FMul(self.b, scalar),
   c |-> FMul(self.c, scalar), d |-> FMul(self.d, scalar)]

Vector4_div(self, scalar) ==
  [a |-> FDiv(self.a, scalar), b |-> FDiv(self.b, scalar),
   c |-> FDiv(self.c, scalar), d |-> FDiv(self.d, scalar)]

from_array_swapped(array) == Vector4_new(array[1], array[3], array[2], array[4])

Vector4_from_array(array) == Vector4_new(array[1], array[2], array[3], array[4])
array_from_Vector4(vector) == <<vector.a, vector.b, vector.c, vector.d>>
Vector4_from_tuple(tuple) == Vector4_new(tuple[1], tuple[2], tuple[3], tuple[4])
tuple_from_Vector4(vector) == <<vector.a, vector.b, vector.c, vector.d>>

Vector4_eq(self, other) ==
  /\ FEq(self.a, other.a) /\ FEq(self.b, other.b)
  /\ FEq(self.c, other.c) /\ FEq(self.d, other.d)

Vector4_partial_cmp(self, other) ==
  LET ca == partial_cmp(self.a, other.a)
      cb == partial_cmp(self.b, other.b)
      cc == partial_cmp(self.c, other.c)
  IN  IF ca # "Equal" THEN ca
      ELSE IF cb # "Equal" THEN cb
      ELSE IF cc # "Equal" THEN cc
      ELSE partial_cmp(self.d, other.d)

Vector4_lt(self, other) == Vector4_partial_cmp(self, other) = "Less"

\* ---------------------------------------------------------------- calls on DynamicVector
NoCall == [op |-> "none", self |-> "v", other |-> "v", n |-> 0,
           value |-> NoVal, panicked |-> FALSE, ret |-> NoVal, out |-> <<>>]
NoRes  == [op |-> "none", a |-> NoVal, b |-> NoVal, k |-> NoVal, ret |-> NoVal]

Init ==
  /\ sum0 \in {Zero, NegZero}
  /\ vecs = [s \in Names |-> DynamicVector_new(0)]
  /\ len0 = [s \in Names |-> 0]
  /\ call = NoCall
  /\ res = NoRes
  /\ buf = [s \in Names |-> IF s = "v" THEN "b1" ELSE "b2"]
  /\ cloned = FALSE

\* let mut s = DynamicVector::new(length);
CallNew(s, length) ==
  /\ vecs' = [vecs EXCEPT ![s] = DynamicVector_new(length)]
  /\ len0' = [len0 EXCEPT ![s] = length]
  /\ call' = [NoCall EXCEPT !.op = "new", !.self = s, !.other = s, !.n = length]
  /\ buf' = [buf EXCEPT ![s] = Fresh(s)]
  /\ cloned' = FALSE
  /\ UNCHANGED <<sum0, res>>

\* s.get(index)
CallGet(s, index) ==
  LET r == DynamicVector_get(vecs[s], index)
  IN  /\ call' = [NoCall EXCEPT !.op = "get", !.self = s, !.other = s,
                                !.n = index, !.panicked = r.panicked,
                                !.ret = r.ret]
      /\ UNCHANGED <<vecs, len0, sum0, res, buf, cloned>>

\* s.set(index, value)
CallSet(s, index, value) ==
  LET r == DynamicVector_set(vecs[s], index, value)
  IN  /\ vecs' = [t \in Names |-> IF buf[t] = buf[s] THEN r.data ELSE vecs[t]]
      /\ call' = [NoCall EXCEPT !.op = "set", !.self = s, !.other = s,
                                !.n = index, !.value = value,
                                !.panicked = r.panicked]
      /\ UNCHANGED <<len0, sum0, res, buf, cloned>>

\* s.dot(&t)
CallDot(s, t) ==
  /\ call' = [NoCall EXCEPT !.op = "dot", !.self = s, !.other = t,
                            !.ret = DynamicVector_dot(vecs[s], vecs[t])]
  /\ UNCHANGED <<vecs, len0, sum0, res, buf, cloned>>

\* s.magnitude()
CallMagnitude(s) ==
  /\ call' = [NoCall EXCEPT !.op = "magnitude", !.self = s, !.other = s,
                            !.ret = DynamicVector_magnitude(vecs[s])]
  /\ UNCHANGED <<vecs, len0, sum0, res, buf, cloned>>

\* s.normalize()
CallNormalize(s) ==
  /\ call' = [NoCall EXCEPT !.op = "normalize", !.self = s, !.other = s,
                            !.out = DynamicVector_normalize(vecs[s])]
  /\ UNCHANGED <<vecs, len0, sum0, res, buf, cloned>>

\* let t = s.clone();
CallClone(s, t) ==
  /\ s # t
  /\ vecs' = [vecs EXCEPT ![t] = DynamicVector_clone(vecs[s])]
  /\ len0' = [len0 EXCEPT ![t] = len0[s]]
  /\ buf' = [buf EXCEPT ![t] = clone_buffer(s, t)]
  /\ cloned' = TRUE
  /\ call' = [NoCall EXCEPT !.op = "clone", !.self = s, !.other = t]
  /\ UNCHANGED <<sum0, res>>

Next ==
  \/ \E s \in Names, length \in 0 .. MaxLen : CallNew(s, length)
  \/ \E s \in Names, index \in 0 .. MaxLen : CallGet(s, index)
  \/ \E s \in Names, index \in 0 .. MaxLen, value \in SetVals :
        CallSet(s, index, value)
  \/ \E s \in Names, t \in Names : CallDot(s, t)
  \/ \E s \in Names : CallMagnitude(s)
  \/ \E s \in Names : CallNormalize(s)
  \/ \E s \in Names, t \in Names : CallClone(s, t)

Spec == Init /\ [][Next]_vars

\* ---------------------------------------------------------------- calls on values
Vec2(S) == [x : S, y : S]
Vec3(S) == [x : S, y : S, z : S]
Vec4(S) == [a : S, b : S, c : S, d : S]
Arr(S, n) == [1 .. n -> S]
Data(S) == UNION { [1 .. n -> S] : n \in 0 .. MaxLen }

\* a value is built and the function is called on it, once
Ready == res.op = "none"

Pure(op, a, b, k, ret) ==
  /\ res' = [op |-> op, a |-> a, b |-> b, k |-> k, ret |-> ret]
  /\ UNCHANGED <<vecs, len0, call, sum0, buf, cloned>>

Dot2   == Ready /\ \E a, b \in Vec2(Inputs) : Pure("dot2", a, b, NoVal, Vector2_dot(a, b))
Dot3   == Ready /\ \E a, b \in Vec3(Few)    : Pure("dot3", a, b, NoVal, Vector3_dot(a, b))
Dot4   == Ready /\ \E a, b \in Vec4(Three)  : Pure("dot4", a, b, NoVal, Vector4_dot(a, b))
DotDyn == Ready /\ \E a, b \in Data(Few)    : Pure("dotN", a, b, NoVal, DynamicVector_dot(a, b))

Cross2 == Ready /\ \E a, b \in Vec2(Inputs) : Pure("cross2", a, b, NoVal, Vector2_cross(a, b))
Cross3 == Ready /\ \E a, b \in Vec3(Few)    : Pure("cross3", a, b, NoVal, Vector3_cross(a, b))
\* a.cross(&(a * k)) and (a * k).cross(&a)
CrossScaled ==
  /\ Ready
  /\ \E a \in Vec3(Inputs), k \in Inputs :
     LET b == Vector3_mul(a, k)
     IN  \/ Pure("cross_a_ak", a, b, k, Vector3_cross(a, b))
         \/ Pure("cross_ak_a", a, b, k, Vector3_cross(b, a))

IntoArray2 == Ready /\ \E v \in Vec2(Inputs) : Pure("into_array2", v, NoVal, NoVal, array_from_Vector2(v))
IntoTuple2 == Ready /\ \E v \in Vec2(Inputs) : Pure("into_tuple2", v, NoVal, NoVal, tuple_from_Vector2(v))
FromArray2 == Ready /\ \E v \in Arr(Inputs, 2) : Pure("from_array2", v, NoVal, NoVal, Vector2_from_array(v))
FromTuple2 == Ready /\ \E v \in Arr(Inputs, 2) : Pure("from_tuple2", v, NoVal, NoVal, Vector2_from_tuple(v))
IntoArray3 == Ready /\ \E v \in Vec3(Inputs) : Pure("into_array3", v, NoVal, NoVal, Vector3_into_array(v))
IntoTuple3 == Ready /\ \E v \in Vec3(Inputs) : Pure("into_tuple3", v, NoVal, NoVal, Vector3_into_tuple(v))
FromArray3 == Ready /\ \E v \in Arr(Inputs, 3) : Pure("from_array3", v, NoVal, NoVal, Vector3_from_array(v))
FromTuple3 == Ready /\ \E v \in Arr(Inputs, 3) : Pure("from_tuple3", v, NoVal, NoVal, Vector3_from_tuple(v))
IntoArray4 == Ready /\ \E v \in Vec4(Few) : Pure("into_array4", v, NoVal, NoVal, array_from_Vector4(v))
IntoTuple4 == Ready /\ \E v \in Vec4(Few) : Pure("into_tuple4", v, NoVal, NoVal, tuple_from_Vector4(v))
FromArray4 == Ready /\ \E v \in Arr(Few, 4) : Pure("from_array4", v, NoVal, NoVal, Vector4_from_array(v))
FromTuple4 == Ready /\ \E v \in Arr(Few, 4) : Pure("from_tuple4", v, NoVal, NoVal, Vector4_from_tuple(v))

Eq2 == Ready /\ \E a, b \in Vec2(Inputs) : Pure("eq2", a, b, NoVal, Vector2_eq(a, b))
Lt2 == Ready /\ \E a, b \in Vec2(Inputs) : Pure("lt2", a, b, NoVal, Vector2_lt(a, b))
Eq3 == Ready /\ \E a, b \in Vec3(Few)    : Pure("eq3", a, b, NoVal, Vector3_eq(a, b))
Lt3 == Ready /\ \E a, b \in Vec3(Few)    : Pure("lt3", a, b, NoVal, Vector3_lt(a, b))
Eq4 == Ready /\ \E a, b \in Vec4(Three)  : Pure("eq4", a, b, NoVal, Vector4_eq(a, b))
Lt4 == Ready /\ \E a, b \in Vec4(Three)  : Pure("lt4", a, b, NoVal, Vector4_lt(a, b))

\* (a + b) - b and (a * s) / s
AddSub2 == Ready /\ \E a, b \in Vec2(Inputs) :
              Pure("addsub2", a, b, NoVal, Vector2_sub(Vector2_add(a, b), b))
AddSub3 == Ready /\ \E a, b \in Vec3(Few) :
              Pure("addsub3", a, b, NoVal, Vector3_sub(Vector3_add(a, b), b))
AddSub4 == Ready /\ \E a, b \in Vec4(Three) :
              Pure("addsub4", a, b, NoVal, Vector4_sub(Vector4_add(a, b), b))
MulDiv2 == Ready /\ \E a \in Vec2(Inputs), s \in Inputs :
              Pure("muldiv2", a, NoVal, s, Vector2_div(Vector2_mul(a, s), s))
MulDiv3 == Ready /\ \E a \in Vec3(Inputs), s \in Inputs :
              Pure("muldiv3", a, NoVal, s, Vector3_div(Vector3_mul(a, s), s))
MulDiv4 == Ready /\ \E a \in Vec4(Few), s \in Inputs :
              Pure("muldiv4", a, NoVal, s, Vector4_div(Vector4_mul(a, s), s))

Mag2   == Ready /\ \E a \in Vec2(Inputs) : Pure("mag2", a, NoVal, NoVal, Vector2_magnitude(a))
Mag3   == Ready /\ \E a \in Vec3(Inputs) : Pure("mag3", a, NoVal, NoVal, Vector3_magnitude(a))
Mag4   == Ready /\ \E a \in Vec4(Inputs) : Pure("mag4", a, NoVal, NoVal, Vector4_magnitude(a))
MagDyn == Ready /\ \E a \in Data(Inputs) : Pure("magN", a, NoVal, NoVal, DynamicVector_magnitude(a))

Norm2   == Ready /\ \E a \in Vec2(Inputs) : Pure("norm2", a, NoVal, NoVal, Vector2_normalize(a))
Norm3   == Ready /\ \E a \in Vec3(Inputs) : Pure("norm3", a, NoVal, NoVal, Vector3_normalize(a))
Norm4   == Ready /\ \E a \in Vec4(Inputs) : Pure("norm4", a, NoVal, NoVal, Vector4_normalize(a))
NormDyn == Ready /\ \E a \in Data(Inputs) : Pure("normN", a, NoVal, NoVal, DynamicVector_normalize(a))

NextPure ==
  \/ Dot2 \/ Dot3 \/ Dot4 \/ DotDyn
  \/ Cross2 \/ Cross3 \/ CrossScaled
  \/ IntoArray2 \/ IntoTuple2 \/ FromArray2 \/ FromTuple2
  \/ IntoArray3 \/ IntoTuple3 \/ FromArray3 \/ FromTuple3
  \/ IntoArray4 \/ IntoTuple4 \/ FromArray4 \/ FromTuple4
  \/ Eq2 \/ Lt2 \/ Eq3 \/ Lt3 \/ Eq4 \/ Lt4
  \/ AddSub2 \/ AddSub3 \/ AddSub4 \/ MulDiv2 \/ MulDiv3 \/ MulDiv4
  \/ Mag2 \/ Mag3 \/ Mag4 \/ MagDyn
  \/ Norm2 \/ Norm3 \/ Norm4 \/ NormDyn

SpecPure == Init /\ [][NextPure]_vars

\* ================================================================ DynamicVector
\* C1: a DynamicVector created by new(n) keeps the length n through every
\* set (in range or not), get, dot, magnitude and normalize.
C1_LengthFixed == \A s \in Names : Len(vecs[s]) = len0[s]

C1_Witness ==
  /\ call.op = "normalize"
  /\ len0[call.self] = MaxLen
  /\ vecs[call.self][1] = One
  /\ Len(call.out) = MaxLen

\* C2: after set(i, v) with i < length, get(i) returns v and get(j), j # i,
\* returns what it returned before; get changes no component.
C2_SetGetFrame ==
  [][ /\ (call'.op = "set" /\ ~call'.panicked) =>
           LET s == call'.self
               i == call'.n
           IN  /\ DynamicVector_get(vecs'[s], i).ret = call'.value
               /\ \A j \in 0 .. Len(vecs[s]) - 1 :
                     j # i => DynamicVector_get(vecs'[s], j).ret
                               = DynamicVector_get(vecs[s], j).ret
               /\ \A t \in Names \ {s} : vecs'[t] = vecs[t]
      /\ (call'.op = "get" /\ ~call'.panicked) =>
           /\ vecs' = vecs
           /\ call'.ret = vecs[call'.self][call'.n + 1]
    ]_vars

C2_Witness ==
  /\ call.op = "set" /\ ~call.panicked
  /\ call.n = 0 /\ call.value = NaN
  /\ vecs[call.self] = [i \in 1 .. MaxLen |-> IF i = 1 THEN NaN ELSE One]

\* C3: new(n) returns a vector of exactly n components, each equal to 0.
C3_NewZeroFilled ==
  call.op = "new" =>
     /\ Len(vecs[call.self]) = call.n
     /\ \A i \in 0 .. call.n - 1 :
           LET r == DynamicVector_get(vecs[call.self], i)
           IN  ~r.panicked /\ FEq(r.ret, Zero)

C3_Witness ==
  call.op = "new" /\ call.n = MaxLen /\ Len(vecs[call.self]) = MaxLen

\* C4: get or set with index >= length panics: no value is returned and no
\* component of any vector is modified.
C4_OutOfBoundsPanics ==
  [][ (call'.op \in {"get", "set"} /\ call'.n >= Len(vecs[call'.self])) =>
         /\ call'.panicked
         /\ call'.ret = NoVal
         /\ vecs' = vecs
    ]_vars

C4_Witness ==
  /\ call.op = "set" /\ call.panicked
  /\ call.n = 1 /\ call.value = NaN
  /\ vecs[call.self] = <<One>>

\* C5: dot of two DynamicVectors of lengths m < n is the sum of a_i * b_i
\* over i < m, whatever the components of the longer one at i >= m are.
RECURSIVE SumProducts(_, _, _)
SumProducts(a, b, m) ==
  IF m = 0 THEN sum0 ELSE FAdd(SumProducts(a, b, m - 1), FMul(a[m], b[m]))

Shorter(a, b) == IF Len(a) < Len(b) THEN Len(a) ELSE Len(b)

C5_DotTruncates ==
  (call.op = "dot" /\ Len(vecs[call.self]) # Len(vecs[call.other])) =>
     LET a == vecs[call.self]
         b == vecs[call.other]
         m == Shorter(a, b)
     IN  /\ ~call.panicked
         /\ call.ret = SumProducts(a, b, m)
         /\ \A j \in m + 1 .. Len(a), x \in Inputs :
               DynamicVector_dot([a EXCEPT ![j] = x], b) = call.ret
         /\ \A j \in m + 1 .. Len(b), x \in Inputs :
               DynamicVector_dot(a, [b EXCEPT ![j] = x]) = call.ret

C5_Witness ==
  /\ call.op = "dot"
  /\ vecs[call.self] = <<One>>
  /\ Len(vecs[call.other]) = 2
  /\ vecs[call.other][1] = One /\ vecs[call.other][2] = One
  /\ call.ret = One

\* ================================================================ value types
Comps2(v) == <<v.x, v.y>>
Comps3(v) == <<v.x, v.y, v.z>>
Comps4(v) == <<v.a, v.b, v.c, v.d>>
NoNaN(t)  == \A i \in DOMAIN t : ~is_nan(t[i])
AllEq(s, t) == \A i \in DOMAIN s : FEq(s[i], t[i])

DotOps == {"dot2", "dot3", "dot4", "dotN"}
DotOf(op, a, b) ==
  CASE op = "dot2" -> Vector2_dot(a, b)
    [] op = "dot3" -> Vector3_dot(a, b)
    [] op = "dot4" -> Vector4_dot(a, b)
    [] op = "dotN" -> DynamicVector_dot(a, b)

\* C6 as stated: for every pair a, b of one type, dot(a, b) == dot(b, a).
C6_Original ==
  res.op \in DotOps => FEq(res.ret, DotOf(res.op, res.b, res.a))

\* C6 amended: dot(a, b) is NaN exactly when dot(b, a) is, and otherwise
\* dot(a, b) == dot(b, a); for DynamicVector whatever the two lengths.
C6_DotCommutes ==
  res.op \in DotOps =>
     LET r == DotOf(res.op, res.b, res.a)
     IN  /\ is_nan(res.ret) <=> is_nan(r)
         /\ ~is_nan(res.ret) => FEq(res.ret, r)

C6_Witness ==
  /\ res.op = "dotN"
  /\ Len(res.a) = 1 /\ Len(res.b) = 2
  /\ ~is_nan(res.ret) /\ ~IsZero(res.ret)
  /\ is_nan(res.b[2])

\* C7 as stated: for every v, from(into(v)) == v, and into(from(t)) == t for
\* every array or tuple t.
IntoOps == {"into_array2", "into_tuple2", "into_array3", "into_tuple3",
            "into_array4", "into_tuple4"}
FromOps == {"from_array2", "from_tuple2", "from_array3", "from_tuple3",
            "from_array4", "from_tuple4"}
Back(op, r) ==
  CASE op = "into_array2" -> Vector2_from_array(r)
    [] op = "into_tuple2" -> Vector2_from_tuple(r)
    [] op = "into_array3" -> Vector3_from_array(r)
    [] op = "into_tuple3" -> Vector3_from_tuple(r)
    [] op = "into_array4" -> Vector4_from_array(r)
    [] op = "into_tuple4" -> Vector4_from_tuple(r)
    [] op = "from_array2" -> array_from_Vector2(r)
    [] op = "from_tuple2" -> tuple_from_Vector2(r)
    [] op = "from_array3" -> Vector3_into_array(r)
    [] op = "from_tuple3" -> Vector3_into_tuple(r)
    [] op = "from_array4" -> array_from_Vector4(r)
    [] op = "from_tuple4" -> tuple_from_Vector4(r)
CompsOf(op, v) ==
  CASE op \in {"into_array2", "into_tuple2", "from_array2", "from_tuple2"} -> Comps2(v)
    [] op \in {"into_array3", "into_tuple3", "from_array3", "from_tuple3"} -> Comps3(v)
    [] op \in {"into_array4", "into_tuple4", "from_array4", "from_tuple4"} -> Comps4(v)
VecEq(op, v, w) ==
  CASE op \in {"into_array2", "into_tuple2"} -> Vector2_eq(v, w)
    [] op \in {"into_array3", "into_tuple3"} -> Vector3_eq(v, w)
    [] op \in {"into_array4", "into_tuple4"} -> Vector4_eq(v, w)

C7_Original ==
  /\ res.op \in IntoOps => VecEq(res.op, Back(res.op, res.ret), res.a)
  /\ res.op \in FromOps => AllEq(Back(res.op, res.ret), res.a)

\* C7 amended: both round trips give back every component unchanged and in
\* declared order, so the result is equal (==) to the input exactly when no
\* component is NaN.
C7_RoundTrip ==
  /\ res.op \in IntoOps =>
        /\ res.ret = CompsOf(res.op, res.a)
        /\ Back(res.op, res.ret) = res.a
        /\ VecEq(res.op, Back(res.op, res.ret), res.a)
             <=> NoNaN(CompsOf(res.op, res.a))
  /\ res.op \in FromOps =>
        /\ CompsOf(res.op, res.ret) = res.a
        /\ Back(res.op, res.ret) = res.a
        /\ AllEq(Back(res.op, res.ret), res.a) <=> NoNaN(res.a)

C7_Witness ==
  /\ res.op = "from_array4"
  /\ res.a = <<Zero, One, Max, F(-1, 3 * Pow2(OneExp - 1))>>
  /\ Vector4_eq(res.ret, Vector4_new(Zero, One, Max, F(-1, 3 * Pow2(OneExp - 1))))

\* C8 as stated: cross(a, b) == -cross(b, a) for all Vector3 (componentwise)
\* and all Vector2, and cross(a, a) is the zero vector.
C8_Original ==
  /\ res.op = "cross3" =>
        /\ AllEq(Comps3(res.ret),
                 [i \in 1 .. 3 |-> FNeg(Comps3(Vector3_cross(res.b, res.a))[i])])
        /\ res.a = res.b => \A i \in 1 .. 3 : IsZero(Comps3(res.ret)[i])
  /\ res.op = "cross2" => FEq(res.ret, FNeg(Vector2_cross(res.b, res.a)))

\* C8 amended: each component of cross(a, b) is NaN exactly when that
\* component of cross(b, a) is, and otherwise equals its negation; each
\* component of cross(a, a) is zero or NaN.
AntiSym(c, d) ==
  /\ is_nan(c) <=> is_nan(d)
  /\ ~is_nan(c) => FEq(c, FNeg(d))

C8_CrossAnticommutes ==
  /\ res.op = "cross3" =>
        /\ \A i \in 1 .. 3 :
              AntiSym(Comps3(res.ret)[i], Comps3(Vector3_cross(res.b, res.a))[i])
        /\ res.a = res.b =>
              \A i \in 1 .. 3 : IsZero(Comps3(res.ret)[i]) \/ is_nan(Comps3(res.ret)[i])
  /\ res.op = "cross2" => AntiSym(res.ret, Vector2_cross(res.b, res.a))

C8_Witness ==
  /\ res.op = "cross3"
  /\ res.a = Vector3_new(One, Zero, Zero)
  /\ res.b = Vector3_new(Zero, One, Zero)
  /\ res.ret = Vector3_new(Zero, Zero, One)

\* C9 as stated: when b == a * k, cross(a, b) and cross(b, a) are the zero
\* vector.
ScaledOps == {"cross_a_ak", "cross_ak_a"}

C9_Original ==
  res.op \in ScaledOps => \A i \in 1 .. 3 : IsZero(Comps3(res.ret)[i])

\* C9 amended: when b == a * k and every multiplication involved (a's
\* components by k, and the six products of the cross product) is exact:
\* finite operands, no rounding, no overflow, no underflow: cross(a, b) and
\* cross(b, a) are the zero vector.
ExactMul(x, y) ==
  /\ x[1] = "num" /\ y[1] = "num"
  /\ (x[3] * y[3]) % One_u = 0
  /\ FMul(x, y) = F(x[2] * y[2], (x[3] * y[3]) \div One_u)

AllExact(a, b, k) ==
  /\ ExactMul(a.x, k) /\ ExactMul(a.y, k) /\ ExactMul(a.z, k)
  /\ ExactMul(a.y, b.z) /\ ExactMul(a.z, b.y)
  /\ ExactMul(a.z, b.x) /\ ExactMul(a.x, b.z)
  /\ ExactMul(a.x, b.y) /\ ExactMul(a.y, b.x)

C9_ParallelCrossZero ==
  (res.op \in ScaledOps /\ AllExact(res.a, res.b, res.k)) =>
     \A i \in 1 .. 3 : IsZero(Comps3(res.ret)[i])

C9_Witness ==
  /\ res.op = "cross_a_ak"
  /\ AllExact(res.a, res.b, res.k)
  /\ res.a.x # res.a.y /\ res.a.y # res.a.z /\ res.a.x # res.a.z
  /\ \A i \in 1 .. 3 : ~IsZero(Comps3(res.b)[i])
  /\ res.k # One
  /\ \A i \in 1 .. 3 : IsZero(Comps3(res.ret)[i])

\* C10: a == b iff every component is equal; a < b iff at the first
\* component, in declared order, where they differ a's is the smaller.
EqOps == {"eq2", "eq3", "eq4"}
LtOps == {"lt2", "lt3", "lt4"}
CompsCmp(op, v) ==
  CASE op \in {"eq2", "lt2"} -> Comps2(v)
    [] op \in {"eq3", "lt3"} -> Comps3(v)
    [] op \in {"eq4", "lt4"} -> Comps4(v)
FirstDiffLess(s, t) ==
  \E i \in DOMAIN s :
     /\ \A j \in 1 .. i - 1 : FEq(s[j], t[j])
     /\ ~FEq(s[i], t[i])
     /\ FLt(s[i], t[i])

C10_EqualityAndOrdering ==
  /\ res.op \in EqOps =>
        (res.ret <=> AllEq(CompsCmp(res.op, res.a), CompsCmp(res.op, res.b)))
  /\ res.op \in LtOps =>
        (res.ret <=> FirstDiffLess(CompsCmp(res.op, res.a), CompsCmp(res.op, res.b)))

C10_Witness ==
  /\ res.op = "lt3" /\ res.ret
  /\ FEq(res.a.x, res.b.x)
  /\ FLt(res.a.y, res.b.y)
  /\ FLt(res.b.z, res.a.z)

\* C11 as stated: (a + b) - b == a for all a, b, and (a * s) / s == a for
\* all a and every nonzero scalar s.
AddSubOps == {"addsub2", "addsub3", "addsub4"}
MulDivOps == {"muldiv2", "muldiv3", "muldiv4"}
CompsArith(op, v) ==
  CASE op \in {"addsub2", "muldiv2"} -> Comps2(v)
    [] op \in {"addsub3", "muldiv3"} -> Comps3(v)
    [] op \in {"addsub4", "muldiv4"} -> Comps4(v)

C11_Original ==
  /\ res.op \in AddSubOps =>
        AllEq(CompsArith(res.op, res.ret), CompsArith(res.op, res.a))
  /\ (res.op \in MulDivOps /\ ~FEq(res.k, Zero)) =>
        AllEq(CompsArith(res.op, res.ret), CompsArith(res.op, res.a))

\* C11 amended: a component of (a + b) - b is equal to that of a whenever
\* the addition a_i + b_i is exact, and a component of (a * s) / s, s finite
\* and nonzero, whenever the multiplication a_i * s is exact (finite operands
\* and a result representable without rounding or overflow).
ExactAdd(x, y) ==
  /\ x[1] = "num" /\ y[1] = "num"
  /\ FAdd(x, y)[1] = "num"
  /\ Key(FAdd(x, y)) = Key(x) + Key(y)

C11_ArithmeticInverse ==
  /\ res.op \in AddSubOps =>
        LET a == CompsArith(res.op, res.a)
            b == CompsArith(res.op, res.b)
            r == CompsArith(res.op, res.ret)
        IN  \A i \in DOMAIN a : ExactAdd(a[i], b[i]) => FEq(r[i], a[i])
  /\ (res.op \in MulDivOps /\ res.k[1] = "num" /\ ~IsZero(res.k)) =>
        LET a == CompsArith(res.op, res.a)
            r == CompsArith(res.op, res.ret)
        IN  \A i \in DOMAIN a : ExactMul(a[i], res.k) => FEq(r[i], a[i])

C11_Witness ==
  /\ res.op = "muldiv2"
  /\ res.k = F(1, Pow2(OneExp + 1))
  /\ res.a = Vector2_new(F(1, 5 * Pow2(OneExp - 2)), F(-1, 3 * Pow2(OneExp - 1)))
  /\ Vector2_eq(res.ret, res.a)

\* C12 as stated: magnitude(a) is the square root of dot(a, a), is >= 0, and
\* is 0 if and only if every component of a is exactly 0.
MagOps == {"mag2", "mag3", "mag4", "magN"}
SelfDot(op, a) ==
  CASE op = "mag2" -> Vector2_dot(a, a)
    [] op = "mag3" -> Vector3_dot(a, a)
    [] op = "mag4" -> Vector4_dot(a, a)
    [] op = "magN" -> DynamicVector_dot(a, a)
CompsMag(op, a) ==
  CASE op = "mag2" -> Comps2(a)
    [] op = "mag3" -> Comps3(a)
    [] op = "mag4" -> Comps4(a)
    [] op = "magN" -> a
GeZero(x) == ~is_nan(x) /\ Key(x) >= 0

C12_Original ==
  res.op \in MagOps =>
     /\ res.ret = FSqrt(SelfDot(res.op, res.a))
     /\ GeZero(res.ret)
     /\ FEq(res.ret, Zero) <=>
           \A i \in DOMAIN CompsMag(res.op, res.a) : IsZero(CompsMag(res.op, res.a)[i])

\* C12 amended: magnitude(a) is the square root of dot(a, a); it is NaN
\* exactly when a component of a is NaN and otherwise >= 0; and it is 0 if
\* and only if the square a_i * a_i of every component is 0, which is so for
\* zero components and for nonzero ones whose square underflows.
C12_Magnitude ==
  res.op \in MagOps =>
     LET c == CompsMag(res.op, res.a)
     IN  /\ res.ret = FSqrt(SelfDot(res.op, res.a))
         /\ is_nan(res.ret) <=> ~NoNaN(c)
         /\ ~is_nan(res.ret) => GeZero(res.ret)
         /\ FEq(res.ret, Zero) <=> \A i \in DOMAIN c : IsZero(FMul(c[i], c[i]))
         /\ (\A i \in DOMAIN c : IsZero(c[i])) => FEq(res.ret, Zero)

C12_Witness ==
  /\ res.op = "mag2"
  /\ res.a = Vector2_new(Tiny, NegZero)
  /\ FEq(res.ret, Zero)

\* C13 as stated: normalize of a vector whose magnitude is 0 returns a
\* vector of the same dimension whose every component is NaN, and never the
\* zero vector or the input unchanged.
NormOps == {"norm2", "norm3", "norm4", "normN"}
MagOf(op, a) ==
  CASE op = "norm2" -> Vector2_magnitude(a)
    [] op = "norm3" -> Vector3_magnitude(a)
    [] op = "norm4" -> Vector4_magnitude(a)
    [] op = "normN" -> DynamicVector_magnitude(a)
CompsNorm(op, a) ==
  CASE op = "norm2" -> Comps2(a)
    [] op = "norm3" -> Comps3(a)
    [] op = "norm4" -> Comps4(a)
    [] op = "normN" -> a
ZeroVector(t) == \A i \in DOMAIN t : IsZero(t[i])

C13_Original ==
  (res.op \in NormOps /\ FEq(MagOf(res.op, res.a), Zero)) =>
     LET c == CompsNorm(res.op, res.a)
         r == CompsNorm(res.op, res.ret)
     IN  /\ Len(r) = Len(c)
         /\ \A i \in DOMAIN r : is_nan(r[i])
         /\ ~ZeroVector(r)
         /\ r # c

\* C13 amended: normalize of a vector whose magnitude is 0 returns a vector
\* of the same dimension in which every zero component has become NaN and
\* every nonzero component (one whose square underflows) has become the
\* infinity of its sign; for a vector of at least one component the result
\* is neither the zero vector nor the input.
C13_NormalizeZeroMagnitude ==
  (res.op \in NormOps /\ FEq(MagOf(res.op, res.a), Zero)) =>
     LET c == CompsNorm(res.op, res.a)
         r == CompsNorm(res.op, res.ret)
     IN  /\ Len(r) = Len(c)
         /\ \A i \in DOMAIN c :
               /\ IsZero(c[i]) => is_nan(r[i])
               /\ ~IsZero(c[i]) => r[i] = Inf(c[i][2])
         /\ Len(c) > 0 => (~ZeroVector(r) /\ r # c)

C13_Witness ==
  /\ res.op = "normN"
  /\ res.a = <<Zero, Tiny>>
  /\ res.ret = <<NaN, Inf(1)>>

\* ================================================================ value semantics
\* C14: after c = clone(v), set calls on c leave every component of v
\* unchanged, and set calls on v leave c unchanged; normalize(v) returns a
\* new vector and leaves v's components unchanged.
C14_NoAliasing ==
  [][ /\ call'.op = "clone" =>
           /\ vecs'[call'.other] = vecs[call'.self]
           /\ vecs'[call'.self] = vecs[call'.self]
      /\ call'.op = "set" =>
           \A t \in Names \ {call'.self} : vecs'[t] = vecs[t]
      /\ call'.op = "normalize" =>
           /\ vecs' = vecs
           /\ call'.out = DynamicVector_normalize(vecs[call'.self])
    ]_vars

C14_Witness ==
  /\ cloned
  /\ call.op = "set" /\ ~call.panicked
  /\ call.self = "w" /\ call.n = 0 /\ call.value = NaN
  /\ vecs["v"] = [i \in 1 .. MaxLen |-> One]
  /\ vecs["w"] = [i \in 1 .. MaxLen |-> IF i = 1 THEN NaN ELSE One]

====
